---- MODULE Spec2Model ----
(***************************************************************************)
(* Model of scripts/batch_encrypt.py: BatchEncryptor.run and the methods   *)
(* it calls (validate_paths, find_files, process_files, encrypt_file,      *)
(* copy_encrypted_file, copy_original_file, generate_filelist,             *)
(* generate_report).                                                       *)
(*                                                                         *)
(* A string is a sequence of one-character strings, a path is a sequence   *)
(* of components (strings).  The external tool (vcs), shutil.copy2,        *)
(* Path.unlink, open(), input() and the mkdir of the target root are the   *)
(* environment: each call picks one of the results the call can have.  A   *)
(* user interrupt (KeyboardInterrupt) is not modelled.                     *)
(***************************************************************************)
EXTENDS Integers, Sequences, FiniteSets, TLC

\* Largest number of files in the source tree.
MaxFiles == 2

-----------------------------------------------------------------------------
(* Strings and characters *)

\* ord() of the characters the model uses
Code(c) ==
    CASE c = "!" -> 33 [] c = "*" -> 42 [] c = "." -> 46 [] c = "/" -> 47
      [] c = "?" -> 63 [] c = "S" -> 83 [] c = "T" -> 84 [] c = "Y" -> 89
      [] c = "[" -> 91 [] c = "]" -> 93 [] c = "_" -> 95
      [] c = "a" -> 97 [] c = "b" -> 98 [] c = "d" -> 100 [] c = "e" -> 101
      [] c = "f" -> 102 [] c = "h" -> 104 [] c = "i" -> 105
      [] c = "l" -> 108 [] c = "m" -> 109 [] c = "n" -> 110 [] c = "p" -> 112
      [] c = "q" -> 113 [] c = "r" -> 114 [] c = "s" -> 115 [] c = "t" -> 116 [] c = "v" -> 118 [] c = "x" -> 120
      [] c = "y" -> 121 [] c = "z" -> 122

\* str.lower() on a string
Lower(s) == [i \in 1..Len(s) |-> IF s[i] = "Y" THEN "y"
                                 ELSE IF s[i] = "S" THEN "s"
                                 ELSE IF s[i] = "T" THEN "t" ELSE s[i]]

\* s < t for str: lexicographic by code point
RECURSIVE StrLess(_, _)
StrLess(s, t) ==
    IF t = <<>> THEN FALSE
    ELSE IF s = <<>> THEN TRUE
    ELSE IF s[1] # t[1] THEN Code(s[1]) < Code(t[1])
    ELSE StrLess(Tail(s), Tail(t))

\* p < q for Path objects: lexicographic over the tuple of parts
RECURSIVE PathLess(_, _)
PathLess(p, q) ==
    IF q = <<>> THEN FALSE
    ELSE IF p = <<>> THEN TRUE
    ELSE IF p[1] # q[1] THEN StrLess(p[1], q[1])
    ELSE PathLess(Tail(p), Tail(q))

\* sorted(set(...)) of paths
RECURSIVE SortedSet(_)
SortedSet(S) ==
    IF S = {} THEN <<>>
    ELSE LET m == CHOOSE x \in S : \A y \in S : y = x \/ PathLess(x, y)
         IN  <<m>> \o SortedSet(S \ {m})

\* insertion of x into a sorted list, after the elements not greater than x
RECURSIVE Insert(_, _)
Insert(x, seq) ==
    IF seq = <<>> THEN <<x>>
    ELSE IF PathLess(x, seq[1]) THEN <<x>> \o seq
    ELSE <<seq[1]>> \o Insert(x, Tail(seq))

\* sorted(list) of paths: duplicates are kept
RECURSIVE SortedList(_)
SortedList(seq) ==
    IF seq = <<>> THEN <<>>
    ELSE Insert(seq[Len(seq)], SortedList(SubSeq(seq, 1, Len(seq) - 1)))

Range(seq) == {seq[i] : i \in 1..Len(seq)}

-----------------------------------------------------------------------------
(* fnmatch.fnmatch on POSIX: *, ?, [seq], [!seq]; ranges a-z are not used *)

\* index of the ] that closes the class opened at pat[j], 0 if there is none
RECURSIVE ScanClose(_, _)
ScanClose(pat, k) ==
    IF k > Len(pat) THEN 0
    ELSE IF pat[k] = "]" THEN k
    ELSE ScanClose(pat, k + 1)

ClassEnd(pat, j) ==
    LET k0 == j + 1
        k1 == IF k0 <= Len(pat) /\ pat[k0] = "!" THEN k0 + 1 ELSE k0
        k2 == IF k1 <= Len(pat) /\ pat[k1] = "]" THEN k1 + 1 ELSE k1
    IN  ScanClose(pat, k2)

InClass(c, pat, j, k) ==
    LET stuff == SubSeq(pat, j + 1, k - 1)
    IN  IF stuff[1] = "!" THEN c \notin Range(Tail(stuff))
        ELSE c \in Range(stuff)

RECURSIVE MatchFrom(_, _, _, _)
MatchFrom(name, i, pat, j) ==
    IF j > Len(pat) THEN i > Len(name)
    ELSE IF pat[j] = "*" THEN
        \/ MatchFrom(name, i, pat, j + 1)
        \/ i <= Len(name) /\ MatchFrom(name, i + 1, pat, j)
    ELSE IF pat[j] = "?" THEN
        i <= Len(name) /\ MatchFrom(name, i + 1, pat, j + 1)
    ELSE IF pat[j] = "[" /\ ClassEnd(pat, j) # 0 THEN
        /\ i <= Len(name)
        /\ InClass(name[i], pat, j, ClassEnd(pat, j))
        /\ MatchFrom(name, i + 1, pat, ClassEnd(pat, j) + 1)
    ELSE
        i <= Len(name) /\ name[i] = pat[j] /\ MatchFrom(name, i + 1, pat, j + 1)

fnmatch(name, pat) == MatchFrom(name, 1, pat, 1)

-----------------------------------------------------------------------------
(* pathlib *)

\* Path.name
Name(p) == p[Len(p)]

\* Path.parent
Parent(p) == SubSeq(p, 1, Len(p) - 1)

\* Path.relative_to(base), for a path under base
RelativeTo(p, base) == SubSeq(p, Len(base) + 1, Len(p))

\* str(relative path): the parts joined by "/"
RECURSIVE StrOf(_)
StrOf(rel) ==
    IF rel = <<>> THEN <<".">>
    ELSE IF Len(rel) = 1 THEN rel[1]
    ELSE rel[1] \o <<"/">> \o StrOf(Tail(rel))

\* str(absolute path)
PathStr(p) == <<"/">> \o StrOf(p)

\* str.rfind('.') on a name, 0-based as in Python (-1 if absent)
RECURSIVE RFindDot(_, _)
RFindDot(name, k) ==
    IF k = 0 THEN -1
    ELSE IF name[k] = "." THEN k - 1
    ELSE RFindDot(name, k - 1)

\* Path.suffix
Suffix(p) ==
    LET name == Name(p)
        i    == RFindDot(name, Len(name))
    IN  IF 0 < i /\ i < Len(name) - 1 THEN SubSeq(name, i + 1, Len(name))
        ELSE <<>>

\* Path.with_suffix(suffix)
WithSuffix(p, suffix) ==
    LET name == Name(p)
        stem == SubSeq(name, 1, Len(name) - Len(Suffix(p)))
    IN  Parent(p) \o <<stem \o suffix>>

-----------------------------------------------------------------------------
(* BatchEncryptor.__init__: the fixed part of the object *)

SourceDir == << <<"S">> >>
TargetDir == << <<"T">> >>

supported_extensions ==
    << <<".", "v">>, <<".", "v", "h">>, <<".", "s", "v">>,
       <<".", "s", "v", "h">>, <<".", "l", "s", "t">> >>

default_copy_only_extensions == << <<".", "l", "s", "t">> >>

\* filelist_name=None
None == <<>>

NoReason == [kind |-> "none", pattern |-> <<>>]

-----------------------------------------------------------------------------
(* The inputs: source trees, rule sets, file list names *)

F_x_v    == SourceDir \o << <<"x", ".", "v">> >>
F_a_svh  == SourceDir \o << <<"a", ".", "s", "v", "h">> >>
F_f_lst  == SourceDir \o << <<"f", ".", "l", "s", "t">> >>
F_z_vh   == SourceDir \o << <<"a">>, <<"z", ".", "v", "h">> >>
F_t_v    == SourceDir \o << <<"a">>, <<"t", ".", "v">> >>
F_y_sv   == SourceDir \o << <<"a">>, <<"b">>, <<"y", ".", "s", "v">> >>


Universe == {F_x_v, F_a_svh, F_f_lst, F_z_vh, F_t_v, F_y_sv}

\* an empty directory whose name ends in a supported extension
D_y_vh   == SourceDir \o << <<"y", ".", "v", "h">> >>
\* a directory where the tool is to leave the artifact of x.v
D_x_vp   == SourceDir \o << <<"x", ".", "v", "p">> >>

DirUniverse == {D_y_vh, D_x_vp}

\* what a source file holds, what the tool makes of it, what the manifest is
Data(f) == <<"data", f>>
Enc(c)  == <<"enc", c>>
ManifestData == <<"manifest", <<>> >>

\* the source trees: the files and the empty directories
Trees ==
    {t \in [files : SUBSET Universe, dirs : SUBSET DirUniverse] :
        Cardinality(t.files) + Cardinality(t.dirs) <= MaxFiles}

RuleSet(ef, ed, cf, cd) ==
    [exclude_files |-> ef, exclude_dirs |-> ed,
     copy_only_files |-> cf, copy_only_dirs |-> cd]

RuleSets ==
    { RuleSet(<<>>, <<>>, <<>>, <<>>),
      \* b excluded by name, *.vh copy-only
      RuleSet(<<>>, << <<"b">> >>, << <<"*", ".", "v", "h">> >>, <<>>),
      \* a/b excluded by relative path, and copy-only at the same time
      RuleSet(<<>>, << <<"a", "/", "b">> >>, << <<"y", "*">> >>, << <<"b">> >>),
      \* file exclusion against copy-only rules and the default extension
      RuleSet(<< <<"t", "*">>, <<"*", ".", "l", "s", "t">> >>, <<>>,
              << <<"t", ".", "v">> >>, << <<"a">> >>),
      \* two directory patterns, the outer directory's first; a file pattern too
      RuleSet(<< <<"?", ".", "s", "v">>, <<"y", "*">> >>,
              << <<"a">>, <<"b">> >>, <<>>, <<>>),
      \* a* matches the relative path a/b; a class pattern
      RuleSet(<< <<"[", "!", "x", "]", ".", "v">> >>, << <<"a", "*", "b">> >>,
              <<>>, << <<"*">> >>),
      \* every directory excluded: the source root itself is not tested
      RuleSet(<<>>, << <<"*">> >>, <<>>, <<>>) }

FilelistNames == {None, <<"f", ".", "l", "s", "t">>, <<"x", ".", "v", "p">>}

\* what the user types at the prompt of validate_paths
Responses == {<<"y">>, <<"Y">>, <<"n">>, <<>>}

\* what target_dir.mkdir does in validate_paths: an exception reaches the
\* except clause of run
MkdirResults  == {"ok", "mkdir_error"}

\* what one call of the tool, of shutil.copy2, of unlink, of open(.., 'w') does
ToolResults   == {"ok", "no_artifact", "exit_nonzero", "exit_nonzero_artifact",
                  "timeout", "not_found", "exception"}
CopyResults   == {"ok", "copy_error", "copystat_error"}
UnlinkResults == {"ok", "unlink_error"}
WriteResults  == {"ok", "write_error"}

-----------------------------------------------------------------------------
VARIABLES
    pc,              \* where run() is: start, find, process, filelist, report, done
    ret,             \* what run() returned: "running", "True", "False"
    cfg,             \* the four pattern lists and filelist_name
    source_kind,     \* the source root: "missing", "file" or "dir"
    target_exists,   \* the target root exists
    prompt,          \* validate_paths: whether input() was called, and the answer
    src,             \* the source tree: path -> content
    src_dirs,        \* the empty directories of the source tree
    tgt,             \* the target tree: path -> content
    files,           \* the list find_files returned
    idx,             \* process_files: position in files (enumerate from 1)
    stats,           \* self.stats
    failed_files,    \* self.failed_files
    skipped_files,   \* self.skipped_files
    processed_files, \* self.processed_files
    lst_files,       \* self.lst_files
    tool_calls,      \* the files the tool was invoked on, in order
    outcome,         \* one record per processed file: disposition, result,
                     \* the tool's result, whether the artifact path existed
                     \* after the call, the cause of a failure
    manifest,        \* the file list written by generate_filelist
    report           \* the report file written by generate_report

vars == <<pc, ret, cfg, source_kind, target_exists, prompt, src, src_dirs, tgt, files, idx, stats,
          failed_files, skipped_files, processed_files, lst_files, tool_calls,
          outcome, manifest, report>>

EmptyTree == [p \in {} |-> <<>>]

NotAsked == [asked |-> FALSE, response |-> <<>>]

NoManifest == [written |-> FALSE, total |-> 0, lst |-> <<>>, body |-> <<>>]

NoReport == [written |-> FALSE,
             stats |-> [total_found |-> 0, success |-> 0, failed |-> 0,
                        skipped |-> 0, copied_only |-> 0],
             skipped |-> <<>>, failed |-> <<>>]

Init ==
    /\ pc = "start"
    /\ ret = "running"
    /\ \E rs \in RuleSets, fl \in FilelistNames :
          \* the manifest named like an artifact is tried without patterns
          /\ fl = <<"x", ".", "v", "p">> => rs = RuleSet(<<>>, <<>>, <<>>, <<>>)
          /\ cfg = [exclude_files |-> rs.exclude_files,
                    exclude_dirs |-> rs.exclude_dirs,
                    copy_only_files |-> rs.copy_only_files,
                    copy_only_dirs |-> rs.copy_only_dirs,
                    filelist_name |-> fl]
    /\ source_kind \in {"missing", "file", "dir"}
    /\ target_exists \in BOOLEAN
    /\ prompt = NotAsked
    /\ \E t \in Trees :
          /\ source_kind # "dir" => t.files = {} /\ t.dirs = {}
          /\ src = [f \in t.files |-> Data(f)]
          /\ src_dirs = t.dirs
    /\ tgt = EmptyTree
    /\ files = <<>>
    /\ idx = 1
    /\ stats = [total_found |-> 0, success |-> 0, failed |-> 0,
                skipped |-> 0, copied_only |-> 0]
    /\ failed_files = <<>>
    /\ skipped_files = <<>>
    /\ processed_files = <<>>
    /\ lst_files = <<>>
    /\ tool_calls = <<>>
    /\ outcome = <<>>
    /\ manifest = NoManifest
    /\ report = NoReport

-----------------------------------------------------------------------------
(* The filters *)

\* index of the first pattern of pats that fnmatch()es one of the names, or 0
RECURSIVE FirstPattern(_, _, _)
FirstPattern(names, pats, k) ==
    IF k > Len(pats) THEN 0
    ELSE IF \E n \in names : fnmatch(n, pats[k]) THEN k
    ELSE FirstPattern(names, pats, k + 1)

IsUnder(p, base) == Len(p) >= Len(base) /\ SubSeq(p, 1, Len(base)) = base

\* the (should_exclude, reason) tuple
should_exclude_file(file_path) ==
    LET k == FirstPattern({Name(file_path)}, cfg.exclude_files, 1)
    IN  IF k # 0
        THEN [excluded |-> TRUE,
              reason |-> [kind |-> "file", pattern |-> cfg.exclude_files[k]]]
        ELSE [excluded |-> FALSE, reason |-> NoReason]

\* the names a directory pattern is matched against: dir_path.name and
\* str(dir_path.relative_to(source_dir))
DirNames(dir_path) ==
    {Name(dir_path), StrOf(RelativeTo(dir_path, SourceDir))}

\* should_exclude_dir matching the directory name only
should_exclude_dir_name_only(dir_path) ==
    LET k == IF IsUnder(dir_path, SourceDir)
             THEN FirstPattern({Name(dir_path)}, cfg.exclude_dirs, 1)
             ELSE 0
    IN  IF k # 0
        THEN [excluded |-> TRUE,
              reason |-> [kind |-> "dir", pattern |-> cfg.exclude_dirs[k]]]
        ELSE [excluded |-> FALSE, reason |-> NoReason]

should_exclude_dir(dir_path) ==
    LET k == IF IsUnder(dir_path, SourceDir)
             THEN FirstPattern(DirNames(dir_path), cfg.exclude_dirs, 1)
             ELSE 0
    IN  IF k # 0
        THEN [excluded |-> TRUE,
              reason |-> [kind |-> "dir", pattern |-> cfg.exclude_dirs[k]]]
        ELSE [excluded |-> FALSE, reason |-> NoReason]

\* should_copy_only_file without the default extensions
should_copy_only_file_patterns_only(file_path) ==
    FirstPattern({Name(file_path)}, cfg.copy_only_files, 1) # 0

should_copy_only_file(file_path) ==
    \/ Suffix(file_path) \in Range(default_copy_only_extensions)
    \/ FirstPattern({Name(file_path)}, cfg.copy_only_files, 1) # 0

should_copy_only_dir(dir_path) ==
    /\ IsUnder(dir_path, SourceDir)
    /\ FirstPattern(DirNames(dir_path), cfg.copy_only_dirs, 1) # 0

\* the loop over the parents walking from the source root inwards
RECURSIVE ExcludedByParents_outermost_first(_, _)
ExcludedByParents_outermost_first(file_path, k) ==
    LET parent == SubSeq(file_path, 1, Len(SourceDir) + k)
    IN  IF Len(SourceDir) + k >= Len(file_path)
        THEN [excluded |-> FALSE, reason |-> NoReason]
        ELSE IF should_exclude_dir(parent).excluded
        THEN should_exclude_dir(parent)
        ELSE ExcludedByParents_outermost_first(file_path, k + 1)

\* find_files, the loop over file_path.parents: k = 1 is the parent
RECURSIVE ExcludedByParents(_, _)
ExcludedByParents(file_path, k) ==
    LET parent == SubSeq(file_path, 1, Len(file_path) - k)
    IN  IF k > Len(file_path) \/ parent = SourceDir
        THEN [excluded |-> FALSE, reason |-> NoReason]
        ELSE IF should_exclude_dir(parent).excluded
        THEN should_exclude_dir(parent)
        ELSE ExcludedByParents(file_path, k + 1)

\* process_files, the loop over file_path.parents
RECURSIVE CopyOnlyByParents(_, _)
CopyOnlyByParents(file_path, k) ==
    LET parent == SubSeq(file_path, 1, Len(file_path) - k)
    IN  IF k > Len(file_path) \/ parent = SourceDir THEN FALSE
        ELSE IF should_copy_only_dir(parent) THEN TRUE
        ELSE CopyOnlyByParents(file_path, k + 1)

-----------------------------------------------------------------------------
(* find_files *)

\* every entry of the source tree below the root: the files, the empty
\* directories and the directories that hold them
Entries(fs, ds) ==
    UNION {{SubSeq(p, 1, n) : n \in (Len(SourceDir) + 1)..Len(p)} : p \in fs \cup ds}

\* the sequences that hold each element of S once
RECURSIVE Perms(_)
Perms(S) ==
    IF S = {} THEN {<<>>}
    ELSE UNION {{<<x>> \o o : o \in Perms(S \ {x})} : x \in S}

\* the orders in which os.scandir can deliver the entries: each directory is
\* scanned on its own, so only the order among the entries of one directory
\* counts, and the entries of different directories are kept in path order
ScanOrders(S) ==
    {o \in Perms(S) : \A i, j \in DOMAIN o :
        i < j /\ Parent(o[i]) # Parent(o[j]) => PathLess(Parent(o[i]), Parent(o[j]))}

\* the entries of one directory, as the scan delivers them
Children(dir, order) == SelectSeq(order, LAMBDA p : Parent(p) = dir)

\* the entries whose name matches "*" + ext
RECURSIVE Matching(_, _)
Matching(ext, entries) ==
    IF entries = <<>> THEN <<>>
    ELSE (IF fnmatch(Name(entries[1]), <<"*">> \o ext)
          THEN <<entries[1]>> ELSE <<>>)
         \o Matching(ext, Tail(entries))

\* the "**" selector: a directory yields the matching entries it holds, then
\* each of its subdirectories does, in the order of the scan
RECURSIVE Walk(_, _, _)
RECURSIVE WalkEach(_, _, _)
Walk(ext, dir, order) ==
    Matching(ext, Children(dir, order)) \o WalkEach(ext, Children(dir, order), order)

WalkEach(ext, dirs, order) ==
    IF dirs = <<>> THEN <<>>
    ELSE Walk(ext, dirs[1], order) \o WalkEach(ext, Tail(dirs), order)

\* list(source_dir.glob("**/*" + ext)) when the scan delivers the entries in
\* order: every entry whose name matches, a directory too
Glob(ext, order) == Walk(ext, SourceDir, order)

\* the files of all the globs, in the order the two loops visit them
RECURSIVE GlobAll(_, _)
GlobAll(k, order) ==
    IF k > Len(supported_extensions) THEN <<>>
    ELSE Glob(supported_extensions[k], order) \o GlobAll(k + 1, order)

\* the body of the inner loop, folded over the visited files
RECURSIVE Filter(_, _)
Filter(visited, acc) ==
    IF visited = <<>> THEN acc
    ELSE LET file_path == visited[1]
             rel_path  == StrOf(RelativeTo(file_path, SourceDir))
             by_dir    == ExcludedByParents(file_path, 1)
             by_file   == should_exclude_file(file_path)
         IN  IF by_dir.excluded
             THEN Filter(Tail(visited),
                         [acc EXCEPT !.excluded_count = @ + 1,
                                     !.skipped = Append(@, <<rel_path, by_dir.reason>>)])
             ELSE IF by_file.excluded
             THEN Filter(Tail(visited),
                         [acc EXCEPT !.excluded_count = @ + 1,
                                     !.skipped = Append(@, <<rel_path, by_file.reason>>)])
             ELSE Filter(Tail(visited),
                         [acc EXCEPT !.found_files = Append(@, file_path)])

find_files(order) ==
    LET r == Filter(GlobAll(1, order),
                    [found_files |-> <<>>, excluded_count |-> 0, skipped |-> <<>>])
    IN  [found_files |-> SortedSet(Range(r.found_files)),
         excluded_count |-> r.excluded_count,
         skipped |-> r.skipped]

-----------------------------------------------------------------------------
(* encrypt_file, copy_encrypted_file, copy_original_file *)

\* the environment: what the tool returns and leaves behind
ToolRaises(tool) == tool \in {"timeout", "not_found", "exception"}
ToolReturncode(tool) == IF tool \in {"ok", "no_artifact"} THEN 0 ELSE 1
ToolWrites(tool) == tool \in {"ok", "exit_nonzero_artifact"}

Put(tree, p, c) == (p :> c) @@ tree

\* a path of the source tree that is a directory; shutil.copy2 of a directory
\* raises IsADirectoryError
IsDir(p) ==
    \/ p \in src_dirs
    \/ /\ p \notin DOMAIN src
       /\ \E f \in DOMAIN src : Len(f) > Len(p) /\ IsUnder(f, p)

\* Path.exists() in the source tree after a call left the files of tree
Exists(tree, p) == p \in DOMAIN tree \/ IsDir(p)

\* what the tool is given to read
Content(p) == IF IsDir(p) THEN Data(p) ELSE src[p]
Remove(tree, p) == [q \in DOMAIN tree \ {p} |-> tree[q]]

\* encrypt_file testing only that the artifact exists
encrypt_file_any_exit(file_path, tool) ==
    LET encrypted_file == WithSuffix(file_path, Suffix(file_path) \o <<"p">>)
        after == IF ToolWrites(tool) /\ ~IsDir(encrypted_file)
                 THEN Put(src, encrypted_file, Enc(Content(file_path))) ELSE src
        exists == Exists(after, encrypted_file)
    IN  IF Suffix(file_path) \notin Range(supported_extensions)
        THEN [success |-> FALSE, encrypted_file |-> None, invoked |-> FALSE,
              src |-> src, exists |-> FALSE]
        ELSE IF ToolRaises(tool)
        THEN [success |-> FALSE, encrypted_file |-> None, invoked |-> TRUE,
              src |-> after, exists |-> exists]
        ELSE IF exists
        THEN [success |-> TRUE, encrypted_file |-> encrypted_file,
              invoked |-> TRUE, src |-> after, exists |-> exists]
        ELSE [success |-> FALSE, encrypted_file |-> None, invoked |-> TRUE,
              src |-> after, exists |-> exists]

\* (success, encrypted_file), with the source tree the call leaves, whether
\* the tool was run and what encrypted_file.exists() gave: a file the tool
\* wrote, or a directory that was there
encrypt_file(file_path, tool) ==
    LET encrypted_file == WithSuffix(file_path, Suffix(file_path) \o <<"p">>)
        after == IF ToolWrites(tool) /\ ~IsDir(encrypted_file)
                 THEN Put(src, encrypted_file, Enc(Content(file_path))) ELSE src
        exists == Exists(after, encrypted_file)
    IN  IF Suffix(file_path) \notin Range(supported_extensions)
        THEN [success |-> FALSE, encrypted_file |-> None, invoked |-> FALSE,
              src |-> src, exists |-> FALSE]
        ELSE IF ToolRaises(tool)
        THEN [success |-> FALSE, encrypted_file |-> None, invoked |-> TRUE,
              src |-> after, exists |-> exists]
        ELSE IF ToolReturncode(tool) = 0 /\ exists
        THEN [success |-> TRUE, encrypted_file |-> encrypted_file,
              invoked |-> TRUE, src |-> after, exists |-> exists]
        ELSE [success |-> FALSE, encrypted_file |-> None, invoked |-> TRUE,
              src |-> after, exists |-> exists]

\* the return value, with the trees and processed_files the call leaves;
\* tree is the source tree after the tool ran; shutil.copy2 of a directory
\* raises IsADirectoryError
copy_encrypted_file(source_file, encrypted_file, tree, copy, unlink) ==
    LET rel_path    == RelativeTo(source_file, SourceDir)
        target_file == TargetDir \o WithSuffix(rel_path, Suffix(encrypted_file))
        copied      == Put(tgt, target_file, tree[encrypted_file])
    IN  IF copy = "copy_error" \/ IsDir(encrypted_file)
        THEN [ok |-> FALSE, src |-> tree, tgt |-> tgt,
              processed_files |-> processed_files]
        ELSE IF copy = "copystat_error"
        THEN [ok |-> FALSE, src |-> tree, tgt |-> copied,
              processed_files |-> processed_files]
        ELSE IF unlink = "unlink_error"
        THEN [ok |-> FALSE, src |-> tree, tgt |-> copied,
              processed_files |-> Append(processed_files, target_file)]
        ELSE [ok |-> TRUE, src |-> Remove(tree, encrypted_file), tgt |-> copied,
              processed_files |-> Append(processed_files, target_file)]

\* copy_original_file without the side list: every target is a processed file
copy_original_file_no_side_list(source_file, copy) ==
    LET rel_path    == RelativeTo(source_file, SourceDir)
        target_file == TargetDir \o rel_path
        copied      == Put(tgt, target_file, src[source_file])
    IN  IF copy = "copy_error" \/ IsDir(source_file)
        THEN [ok |-> FALSE, tgt |-> tgt, lst_files |-> lst_files,
              processed_files |-> processed_files]
        ELSE IF copy = "copystat_error"
        THEN [ok |-> FALSE, tgt |-> copied, lst_files |-> lst_files,
              processed_files |-> processed_files]
        ELSE [ok |-> TRUE, tgt |-> copied, lst_files |-> lst_files,
              processed_files |-> Append(processed_files, target_file)]

copy_original_file(source_file, copy) ==
    LET rel_path    == RelativeTo(source_file, SourceDir)
        target_file == TargetDir \o rel_path
        copied      == Put(tgt, target_file, src[source_file])
        is_lst      == Suffix(source_file) = <<".", "l", "s", "t">>
    IN  IF copy = "copy_error" \/ IsDir(source_file)
        THEN [ok |-> FALSE, tgt |-> tgt, lst_files |-> lst_files,
              processed_files |-> processed_files]
        ELSE IF copy = "copystat_error"
        THEN [ok |-> FALSE, tgt |-> copied, lst_files |-> lst_files,
              processed_files |-> processed_files]
        ELSE [ok |-> TRUE, tgt |-> copied,
              lst_files |-> IF is_lst
                            THEN Append(lst_files, <<source_file, target_file>>)
                            ELSE lst_files,
              processed_files |-> IF is_lst THEN processed_files
                                  ELSE Append(processed_files, target_file)]

-----------------------------------------------------------------------------
(* run() and its steps *)

\* validate_paths refusing only the answer n
Validate_only_n_declines ==
    /\ pc = "start"
    /\ IF source_kind = "missing" \/ source_kind = "file"
       THEN /\ pc' = "done"
            /\ ret' = "False"
            /\ UNCHANGED <<target_exists, prompt>>
       ELSE IF target_exists
       THEN \E response \in Responses :
               /\ prompt' = [asked |-> TRUE, response |-> response]
               /\ IF Lower(response) = <<"n">>
                  THEN pc' = "done" /\ ret' = "False"
                  ELSE pc' = "find" /\ ret' = ret
               /\ UNCHANGED target_exists
       ELSE \E mkdir \in MkdirResults :
               /\ IF mkdir = "ok"
                  THEN target_exists' = TRUE /\ pc' = "find" /\ ret' = ret
                  ELSE target_exists' = FALSE /\ pc' = "done" /\ ret' = "False"
               /\ UNCHANGED prompt
    /\ UNCHANGED <<cfg, src_dirs, source_kind, src, tgt, files, idx, stats, failed_files,
                   skipped_files, processed_files, lst_files, tool_calls,
                   outcome, manifest, report>>

\* validate_paths, and run's return when it fails
Validate ==
    /\ pc = "start"
    /\ IF source_kind = "missing" \/ source_kind = "file"
       THEN /\ pc' = "done"
            /\ ret' = "False"
            /\ UNCHANGED <<target_exists, prompt>>
       ELSE IF target_exists
       THEN \E response \in Responses :
               /\ prompt' = [asked |-> TRUE, response |-> response]
               /\ IF Lower(response) # <<"y">>
                  THEN pc' = "done" /\ ret' = "False"
                  ELSE pc' = "find" /\ ret' = ret
               /\ UNCHANGED target_exists
       ELSE \E mkdir \in MkdirResults :
               /\ IF mkdir = "ok"
                  THEN target_exists' = TRUE /\ pc' = "find" /\ ret' = ret
                  ELSE target_exists' = FALSE /\ pc' = "done" /\ ret' = "False"
               /\ UNCHANGED prompt
    /\ UNCHANGED <<cfg, src_dirs, source_kind, src, tgt, files, idx, stats, failed_files,
                   skipped_files, processed_files, lst_files, tool_calls,
                   outcome, manifest, report>>

\* find_files, and run's early return when nothing is left
FindFiles ==
    /\ pc = "find"
    /\ \E order \in ScanOrders(Entries(DOMAIN src, src_dirs)) :
          LET r == find_files(order)
          IN  /\ files' = r.found_files
              /\ skipped_files' = skipped_files \o r.skipped
              /\ stats' = [stats EXCEPT !.total_found = Len(r.found_files),
                                        !.skipped = r.excluded_count]
              /\ IF r.found_files = <<>>
                 THEN pc' = "done" /\ ret' = "True"
                 ELSE pc' = "process" /\ ret' = ret
    /\ idx' = 1
    /\ UNCHANGED <<cfg, src_dirs, source_kind, target_exists, prompt, src, tgt, failed_files,
                   processed_files, lst_files, tool_calls, outcome, manifest,
                   report>>

\* FailReason with one reason for the tool and for the copy of its output
FailReason_one_reason(stage) ==
    CASE stage = "copy_only" -> "Copy-only failed"
      [] stage = "copy"      -> "Encryption failed"
      [] stage = "encrypt"   -> "Encryption failed"

\* the reason process_files records for a failure at a stage
FailReason(stage) ==
    CASE stage = "copy_only" -> "Copy-only failed"
      [] stage = "copy"      -> "Copy failed"
      [] stage = "encrypt"   -> "Encryption failed"

\* the copy-only test of process_files
IsCopyOnly(file_path) ==
    CopyOnlyByParents(file_path, 1) \/ should_copy_only_file(file_path)

\* the failure bookkeeping without the counter
Failed_no_count(file_path, stage) ==
    /\ stats' = stats
    /\ failed_files' = Append(failed_files, <<PathStr(file_path), FailReason(stage)>>)

Failed(file_path, stage) ==
    /\ stats' = [stats EXCEPT !.failed = @ + 1]
    /\ failed_files' = Append(failed_files, <<PathStr(file_path), FailReason(stage)>>)

\* one iteration of the loop of process_files
ProcessFile ==
    /\ pc = "process"
    /\ idx <= Len(files)
    /\ LET file_path == files[idx]
       IN  IF IsCopyOnly(file_path)
           THEN \E copy \in CopyResults :
                  LET c == copy_original_file(file_path, copy)
                  IN  /\ tgt' = c.tgt
                      /\ lst_files' = c.lst_files
                      /\ processed_files' = c.processed_files
                      /\ IF c.ok
                         THEN /\ stats' = [stats EXCEPT !.copied_only = @ + 1]
                              /\ UNCHANGED failed_files
                         ELSE Failed(file_path, "copy_only")
                      /\ outcome' = Append(outcome,
                            [file |-> file_path, disposition |-> "CopyOnly",
                             result |-> IF c.ok THEN "Succeeded" ELSE "Failed",
                             tool |-> "not_run", exists |-> FALSE,
                             cause |-> IF c.ok THEN "none"
                                       ELSE IF IsDir(file_path)
                                       THEN "is_a_directory"
                                       ELSE copy])
                      /\ UNCHANGED <<src, tool_calls>>
           ELSE \E tool \in ToolResults :
                  LET e == encrypt_file(file_path, tool)
                  IN  /\ tool_calls' = IF e.invoked
                                       THEN Append(tool_calls, file_path)
                                       ELSE tool_calls
                      /\ UNCHANGED lst_files
                      /\ IF e.success /\ e.encrypted_file # None
                         THEN \E copy \in CopyResults, unlink \in UnlinkResults :
                              LET c == copy_encrypted_file(file_path,
                                           e.encrypted_file, e.src, copy, unlink)
                              IN  /\ src' = c.src
                                  /\ tgt' = c.tgt
                                  /\ processed_files' = c.processed_files
                                  /\ IF c.ok
                                     THEN /\ stats' = [stats EXCEPT
                                                          !.success = @ + 1]
                                          /\ UNCHANGED failed_files
                                     ELSE Failed(file_path, "copy")
                                  /\ outcome' = Append(outcome,
                                        [file |-> file_path,
                                         disposition |-> "Transform",
                                         result |-> IF c.ok THEN "Succeeded"
                                                    ELSE "Failed",
                                         tool |-> tool, exists |-> e.exists,
                                         cause |-> IF c.ok THEN "none"
                                                   ELSE IF IsDir(e.encrypted_file)
                                                   THEN "is_a_directory"
                                                   ELSE IF copy # "ok" THEN copy
                                                   ELSE unlink])
                         ELSE /\ src' = e.src
                              /\ UNCHANGED <<tgt, processed_files>>
                              /\ Failed(file_path, "encrypt")
                              /\ outcome' = Append(outcome,
                                    [file |-> file_path,
                                     disposition |-> "Transform",
                                     result |-> "Failed",
                                     tool |-> IF e.invoked THEN tool
                                              ELSE "not_run",
                                     exists |-> e.exists,
                                     cause |-> IF e.invoked THEN tool
                                               ELSE "unsupported"])
    /\ idx' = idx + 1
    /\ pc' = IF idx + 1 > Len(files) THEN "filelist" ELSE "process"
    /\ UNCHANGED <<ret, cfg, src_dirs, source_kind, target_exists, prompt, files, skipped_files,
                   manifest, report>>

\* sorted(self.lst_files): (source, target) tuples, the sources are distinct
RECURSIVE SortedPairs(_)
SortedPairs(S) ==
    IF S = {} THEN <<>>
    ELSE LET m == CHOOSE x \in S : \A y \in S : y = x \/ PathLess(x[1], y[1])
         IN  <<m>> \o SortedPairs(S \ {m})

\* generate_filelist
GenerateFilelist ==
    /\ pc = "filelist"
    /\ IF cfg.filelist_name = None
       THEN UNCHANGED <<manifest, tgt>>
       ELSE IF processed_files = <<>> /\ lst_files = <<>>
       THEN UNCHANGED <<manifest, tgt>>
       ELSE \E write \in WriteResults :
               LET filelist_path == TargetDir \o <<cfg.filelist_name>>
                   sorted_files  == SortedList(processed_files)
               IN  IF write = "ok"
                   THEN /\ manifest' = [written |-> TRUE,
                                        total |-> Len(sorted_files),
                                        lst |-> SortedPairs(Range(lst_files)),
                                        body |-> sorted_files]
                        /\ tgt' = Put(tgt, filelist_path, ManifestData)
                   ELSE UNCHANGED <<manifest, tgt>>
    /\ pc' = "report"
    /\ UNCHANGED <<ret, cfg, src_dirs, source_kind, target_exists, prompt, src, files, idx, stats,
                   failed_files, skipped_files, processed_files, lst_files,
                   tool_calls, outcome, report>>

\* generate_report, and the end of run: an exception of open() reaches the
\* except clause of run
GenerateReport ==
    /\ pc = "report"
    /\ \E write \in WriteResults :
          IF write = "ok"
          THEN /\ report' = [written |-> TRUE, stats |-> stats,
                             skipped |-> skipped_files, failed |-> failed_files]
               /\ ret' = "True"
          ELSE /\ UNCHANGED report
               /\ ret' = "False"
    /\ pc' = "done"
    /\ UNCHANGED <<cfg, src_dirs, source_kind, target_exists, prompt, src, tgt, files, idx, stats,
                   failed_files, skipped_files, processed_files, lst_files,
                   tool_calls, outcome, manifest>>

\* run() going back to a file that failed
Next_with_retry ==
    \/ Validate
    \/ FindFiles
    \/ ProcessFile
    \/ GenerateFilelist
    \/ GenerateReport
    \/ /\ pc = "process"
       /\ idx > 1
       /\ outcome[idx - 1].result = "Failed"
       /\ idx' = idx - 1
       /\ UNCHANGED <<pc, ret, cfg, src_dirs, source_kind, target_exists, prompt, src, tgt,
                      files, stats, failed_files, skipped_files, processed_files,
                      lst_files, tool_calls, outcome, manifest, report>>

Next ==
    \/ Validate
    \/ FindFiles
    \/ ProcessFile
    \/ GenerateFilelist
    \/ GenerateReport

Spec == Init /\ [][Next]_vars

-----------------------------------------------------------------------------
(* The properties *)

Recognized(f) == Suffix(f) \in Range(supported_extensions)

\* the directories strictly between a file and the source root
Between(f) ==
    {SubSeq(f, 1, n) : n \in (Len(SourceDir) + 1)..(Len(f) - 1)}

DirRuleMatches(f, pats) ==
    \E d \in Between(f) : \E i \in DOMAIN pats :
        \/ fnmatch(Name(d), pats[i])
        \/ fnmatch(StrOf(RelativeTo(d, SourceDir)), pats[i])

FileRuleMatches(f, pats) ==
    \E i \in DOMAIN pats : fnmatch(Name(f), pats[i])

ExcludeRuleMatches(f) ==
    DirRuleMatches(f, cfg.exclude_dirs) \/ FileRuleMatches(f, cfg.exclude_files)

CopyOnlyRuleMatches(f) ==
    \/ Suffix(f) = <<".", "l", "s", "t">>
    \/ DirRuleMatches(f, cfg.copy_only_dirs)
    \/ FileRuleMatches(f, cfg.copy_only_files)

\* nothing in the target tree comes from f
NothingPlacedFor(f) ==
    \A p \in DOMAIN tgt : tgt[p] # Data(f) /\ tgt[p] # Enc(Data(f))

Outcomes == Range(outcome)

\* run() got past validate_paths
ValidationPassed ==
    /\ pc # "start"
    /\ ~(pc = "done" /\ ret = "False" /\ files = <<>>)

\* the entry of failed_files that belongs to the i-th processed file
FailedEntry(i) ==
    failed_files[Cardinality({j \in 1..i : outcome[j].result = "Failed"})]

\* C1: a recognised file that an exclude-dir pattern (on a directory strictly
\* between it and the source root, by name or relative path) or an
\* exclude-file pattern matches is never in the result of find_files, never
\* processed, never passed to the tool and never copied into the target
\* tree, whatever copy-only rule matches it too.
C1_ExclusionDominates ==
    \A f \in DOMAIN src :
        Recognized(f) /\ ExcludeRuleMatches(f) =>
            /\ f \notin Range(files)
            /\ f \notin Range(tool_calls)
            /\ \A o \in Outcomes : o.file # f
            /\ NothingPlacedFor(f)

\* C1: the run ended with files processed and a file left out that an exclude
\* rule and a copy-only rule both match
C1_Witness ==
    /\ pc = "done"
    /\ outcome # <<>>
    /\ \E f \in DOMAIN src :
          /\ Recognized(f) /\ ExcludeRuleMatches(f) /\ CopyOnlyRuleMatches(f)
          /\ \E r \in Range(skipped_files) :
                r[1] = StrOf(RelativeTo(f, SourceDir))

\* C2: a processed file is CopyOnly exactly when its extension is .lst, or a
\* directory strictly between it and the source root matches a copy-only-dir
\* pattern, or its name matches a copy-only-file pattern; any other processed
\* file is Transform and was passed to the tool.
C2_CopyOnlyIff ==
    \A o \in Outcomes :
        /\ o.disposition \in {"CopyOnly", "Transform"}
        /\ o.disposition = "CopyOnly" <=> CopyOnlyRuleMatches(o.file)
        /\ o.disposition = "CopyOnly" => o.file \notin Range(tool_calls)
        /\ o.disposition = "Transform" => o.file \in Range(tool_calls)

\* C2: a .lst file was copied only with both copy-only lists empty, and
\* another file went to the tool
C2_Witness ==
    /\ cfg.copy_only_files = <<>>
    /\ cfg.copy_only_dirs = <<>>
    /\ \E o \in Outcomes :
          o.file = F_f_lst /\ o.disposition = "CopyOnly" /\ o.result = "Succeeded"
    /\ \E o \in Outcomes : o.disposition = "Transform"

\* C3: a failed file adds 1 to the failed counter and one entry to the failed
\* list, the files after it are still processed, and run() returns success.
C3_FailureNeverFatal ==
    /\ stats.failed = Cardinality({i \in DOMAIN outcome :
                                       outcome[i].result = "Failed"})
    /\ Len(failed_files) = stats.failed
    /\ \A i \in DOMAIN outcome :
          outcome[i].result = "Failed" =>
              FailedEntry(i)[1] = PathStr(outcome[i].file)
    /\ pc \in {"filelist", "report", "done"} /\ files # <<>> =>
          Len(outcome) = Len(files)
    /\ pc = "done" /\ (\E o \in Outcomes : o.result = "Failed") => ret = "True"

\* the target path of a processed file
TargetOf(o) ==
    LET f == o.file
    IN  IF o.disposition = "CopyOnly"
        THEN TargetDir \o RelativeTo(f, SourceDir)
        ELSE TargetDir \o RelativeTo(Parent(f), SourceDir)
                       \o <<Name(f) \o <<"p">> >>

\* C4: the body of the manifest is exactly the target paths of the files
\* recorded as Succeeded that are not .lst files, no path of a Failed file is
\* in it, and it is sorted without duplicates.
C4_ManifestIsSucceeded ==
    manifest.written =>
        /\ Range(manifest.body) =
              {TargetOf(o) : o \in {x \in Outcomes :
                   x.result = "Succeeded" /\ Suffix(x.file) # <<".", "l", "s", "t">>}}
        /\ \A o \in Outcomes :
              o.result = "Failed" => TargetOf(o) \notin Range(manifest.body)
        /\ \A i, j \in DOMAIN manifest.body :
              i < j => PathLess(manifest.body[i], manifest.body[j])

\* C5: when validation passed and files were processed, run() returns True
\* whether or not the manifest and the report could be written.
C5_OutputsBestEffort ==
    pc = "done" /\ ValidationPassed /\ outcome # <<>> => ret = "True"

\* the four causes of a failure that are to be told apart
CauseClass(cause) ==
    CASE cause = "timeout" -> "timeout"
      [] cause = "not_found" -> "missing-tool"
      [] cause \in {"exit_nonzero", "exit_nonzero_artifact", "no_artifact"}
            -> "bad-exit"
      [] cause \in {"copy_error", "copystat_error", "unlink_error",
                     "is_a_directory"}
            -> "copy-error"
      [] OTHER -> "other"

\* C6 as stated: two failures whose causes differ (timeout, missing tool,
\* non-zero exit or missing artifact, copy or cleanup error) are recorded in
\* the failed list with different reasons.
C6_ReasonsTellCauses ==
    \A i, j \in DOMAIN outcome :
        /\ outcome[i].result = "Failed" /\ outcome[j].result = "Failed"
        /\ CauseClass(outcome[i].cause) # "other"
        /\ CauseClass(outcome[j].cause) # "other"
        /\ CauseClass(outcome[i].cause) # CauseClass(outcome[j].cause)
        => FailedEntry(i)[2] # FailedEntry(j)[2]

\* the tool ran to its end, exited 0, and the artifact path exists (as a file
\* or as a directory)
ToolStagePassed(o) ==
    /\ o.tool \in ToolResults
    /\ ~ToolRaises(o.tool)
    /\ ToolReturncode(o.tool) = 0
    /\ o.exists

\* the stage at which a failed file failed
StageReason(o) ==
    IF o.disposition = "CopyOnly" THEN "Copy-only failed"
    ELSE IF ToolStagePassed(o) THEN "Copy failed"
    ELSE "Encryption failed"

\* C6 as amended: every failed file has its entry (path, reason) in the failed
\* list, and the reason names the stage that failed: "Copy-only failed" for a
\* copy-only file; "Encryption failed" when the tool call raised (timeout,
\* missing tool, any exception), exited non-zero or left nothing at the
\* artifact path; "Copy failed" when the tool exited 0 and the artifact path
\* exists but the copy or the cleanup failed, which includes an artifact path
\* that is a directory the tool wrote nothing to.
C6_ReasonsNameStage ==
    /\ Len(failed_files) =
          Cardinality({i \in DOMAIN outcome : outcome[i].result = "Failed"})
    /\ \A i \in DOMAIN outcome :
          outcome[i].result = "Failed" =>
              FailedEntry(i) = <<PathStr(outcome[i].file), StageReason(outcome[i])>>

\* C6: the tool exited 0 and wrote nothing, a directory was at the artifact
\* path, and the failure was recorded as a failure of the copy
C6_Witness ==
    \E i \in DOMAIN outcome :
        /\ outcome[i].result = "Failed"
        /\ outcome[i].tool = "no_artifact"
        /\ outcome[i].cause = "is_a_directory"
        /\ FailedEntry(i)[2] = "Copy failed"

\* C7: every run that passes validation ends with a report written that holds
\* the five counters, the skip records and the failed records.
C7_ReportAlwaysWritten ==
    pc = "done" /\ ValidationPassed =>
        /\ report.written
        /\ report.stats = stats
        /\ report.skipped = skipped_files
        /\ report.failed = failed_files

\* C8: a Transform file is Succeeded only if the tool returned 0 and the
\* artifact path exists after the call; if the tool returned non-zero, nothing
\* exists at the artifact path, the tool timed out, was not found or raised,
\* the file is Failed and nothing of it is in the target tree.
C8_SuccessNeedsExitAndArtifact ==
    \A o \in Outcomes :
        o.disposition = "Transform" =>
            /\ o.result = "Succeeded" =>
                  /\ o.tool \in ToolResults
                  /\ ~ToolRaises(o.tool)
                  /\ ToolReturncode(o.tool) = 0
                  /\ o.exists
            /\ \/ o.tool \notin ToolResults
               \/ ToolRaises(o.tool)
               \/ ToolReturncode(o.tool) # 0
               \/ ~o.exists
               => o.result = "Failed" /\ NothingPlacedFor(o.file)

\* C8: one file succeeded, another failed although its artifact was there
C8_Witness ==
    /\ \E o \in Outcomes : o.disposition = "Transform" /\ o.result = "Succeeded"
    /\ \E o \in Outcomes :
          o.tool = "exit_nonzero_artifact" /\ o.exists /\ o.result = "Failed"

\* the extension of the artifact of a Transform file
MappedExtension(ext) ==
    CASE ext = <<".", "v">> -> <<".", "v", "p">>
      [] ext = <<".", "s", "v">> -> <<".", "s", "v", "p">>
      [] ext = <<".", "v", "h">> -> <<".", "v", "h", "p">>
      [] ext = <<".", "s", "v", "h">> -> <<".", "s", "v", "h", "p">>

\* C9: once a Transform file is Succeeded its artifact is no longer in the
\* source tree, the target tree holds its artifact in exactly one place, the
\* mirrored relative path with the mapped extension, and the source file is
\* in place.
C9_ArtifactMovedToTarget ==
        \A o \in Outcomes :
            o.disposition = "Transform" /\ o.result = "Succeeded" =>
                LET f    == o.file
                    ext  == Suffix(f)
                    stem == SubSeq(Name(f), 1, Len(Name(f)) - Len(ext))
                    art  == Parent(f) \o <<Name(f) \o <<"p">> >>
                    tp   == TargetDir \o RelativeTo(Parent(f), SourceDir)
                                      \o <<stem \o MappedExtension(ext)>>
                IN  /\ art \notin DOMAIN src
                    /\ {p \in DOMAIN tgt : tgt[p] = Enc(Data(f))} = {tp}
                    /\ IF f \in DOMAIN src THEN src[f] = Data(f) ELSE IsDir(f)

\* C10: once a CopyOnly file is Succeeded the target tree holds, at the
\* relative path of the source file, the content of the source file, and the
\* source file is unchanged.
C10_CopyOnlyMirrors ==
        \A o \in Outcomes :
            o.disposition = "CopyOnly" /\ o.result = "Succeeded" =>
                \E p \in DOMAIN tgt :
                    /\ IsUnder(p, TargetDir)
                    /\ RelativeTo(p, TargetDir) = RelativeTo(o.file, SourceDir)
                    /\ tgt[p] = Data(o.file)
                    /\ o.file \in DOMAIN src /\ src[o.file] = Data(o.file)

LstExtension == <<".", "l", "s", "t">>

\* C11: a .lst file that was copied is in the side list and not among the
\* processed files; no path of processed_files or of the manifest body is a
\* .lst path; every other file that succeeded has its target among the
\* processed files and not in the side list.
C11_SideListSeparate ==
    /\ \A p \in Range(processed_files) \cup Range(manifest.body) :
          Suffix(p) # LstExtension
    /\ \A o \in Outcomes :
          o.result = "Succeeded" =>
              IF Suffix(o.file) = LstExtension
              THEN /\ <<o.file, TargetOf(o)>> \in Range(lst_files)
                   /\ TargetOf(o) \notin Range(processed_files)
              ELSE /\ TargetOf(o) \in Range(processed_files)
                   /\ \A e \in Range(lst_files) :
                         e[1] # o.file /\ e[2] # TargetOf(o)
    /\ manifest.written => manifest.lst = SortedPairs(Range(lst_files))

\* C11: a .lst file and another file were placed and the manifest is written
C11_Witness ==
    /\ manifest.written
    /\ \E o \in Outcomes : o.result = "Succeeded" /\ Suffix(o.file) = LstExtension
    /\ \E o \in Outcomes : o.result = "Succeeded" /\ Suffix(o.file) # LstExtension

\* validate_paths fails: no source root, a source root that is no directory,
\* or an answer other than y to the prompt
ValidationFails ==
    \/ source_kind \in {"missing", "file"}
    \/ prompt.asked /\ prompt.response \notin {<<"y">>, <<"Y">>}

\* validate_paths raised: the target root could not be created
MkdirRaised == pc # "start" /\ source_kind = "dir" /\ ~target_exists

ZeroStats == [total_found |-> 0, success |-> 0, failed |-> 0,
              skipped |-> 0, copied_only |-> 0]

\* C12: when validation fails run() returns False before discovery: nothing
\* is discovered, copied or passed to the tool, the five counters are 0, the
\* skip and failed lists are empty and no manifest is written.
C12_ValidationFailureAborts ==
    pc # "start" /\ ValidationFails =>
        /\ pc = "done" /\ ret = "False"
        /\ files = <<>> /\ outcome = <<>> /\ tool_calls = <<>>
        /\ tgt = EmptyTree
        /\ stats = ZeroStats
        /\ skipped_files = <<>> /\ failed_files = <<>>
        /\ processed_files = <<>> /\ lst_files = <<>>
        /\ ~manifest.written /\ ~report.written

\* C12: the user did not answer y or n although the source tree has
\* recognised files
C12_Witness ==
    /\ pc = "done"
    /\ prompt.asked /\ prompt.response = <<>>
    /\ \E f \in DOMAIN src : Recognized(f)
    /\ ret = "False"

\* C13: with no recognised file in the source tree a run that passes
\* validation never processes anything and returns True with the five
\* counters 0, an empty target tree and nothing in a manifest or report.
C13_EmptyTreeSucceeds ==
    /\ pc # "start"
    /\ ~ValidationFails /\ ~MkdirRaised
    /\ \A f \in DOMAIN src : ~Recognized(f)
    => /\ pc \in {"find", "done"}
       /\ pc = "done" => ret = "True"
       /\ files = <<>> /\ outcome = <<>>
       /\ stats = ZeroStats
       /\ tgt = EmptyTree
       /\ manifest.body = <<>> /\ manifest.lst = <<>>
       /\ report.skipped = <<>> /\ report.failed = <<>>

Terminal == stats.success + stats.copied_only + stats.failed

C14_Inv ==
    /\ Terminal = idx - 1
    /\ Terminal = Len(outcome)
    /\ stats.failed = Len(failed_files)
    /\ pc \in {"filelist", "report", "done"} => Terminal = stats.total_found

C14_Step ==
    /\ \A k \in DOMAIN stats : stats'[k] >= stats[k]
    /\ outcome' # outcome =>
          /\ Terminal' = Terminal + 1
          /\ Cardinality({k \in {"success", "copied_only", "failed"} :
                             stats'[k] = stats[k] + 1}) = 1
          /\ Cardinality({k \in {"success", "copied_only", "failed"} :
                             stats'[k] = stats[k]}) = 2
    /\ outcome' = outcome =>
          \A k \in {"success", "copied_only", "failed"} : stats'[k] = stats[k]

\* C14: no counter ever decreases; processing a file adds 1 to exactly one of
\* success, copied_only and failed; at every point their sum is the number of
\* files processed so far and failed is the length of the failed list; once
\* processing has ended the sum is total_found.
C14_CountersExact == []C14_Inv /\ [][C14_Step]_vars

\* C14: a run ended with one file encrypted and one file failed
C14_Witness ==
    /\ pc = "done"
    /\ stats.total_found = 2 /\ stats.success = 1 /\ stats.failed = 1

\* find_files has run
Discovered == pc \notin {"start", "find"} /\ ~ValidationFails /\ ~MkdirRaised

\* the skip records of a file
SkipRecords(f) ==
    {i \in DOMAIN skipped_files :
        skipped_files[i][1] = StrOf(RelativeTo(f, SourceDir))}

\* every recognised file is in the result or has one skip record, never
\* both; other files have neither; the counters are the sizes
Partitioned ==
    /\ \A f \in DOMAIN src :
          IF Recognized(f)
          THEN \/ f \in Range(files) /\ SkipRecords(f) = {}
               \/ f \notin Range(files) /\ Cardinality(SkipRecords(f)) = 1
          ELSE f \notin Range(files) /\ SkipRecords(f) = {}
    /\ Range(files) \subseteq DOMAIN src
    /\ \A i \in DOMAIN skipped_files :
          \E f \in DOMAIN src : i \in SkipRecords(f)
    /\ \A i, j \in DOMAIN files : i # j => files[i] # files[j]
    /\ stats.total_found = Len(files)
    /\ stats.skipped = Len(skipped_files)

\* C15: discovery partitions the recognised files into the result
\* and the skip records, the counters are their sizes, and the result is
\* sorted lexicographically by the full path (the path as a string).
C15_SortedByFullPath ==
    Discovered =>
        /\ Partitioned
        /\ \A i, j \in DOMAIN files :
              i < j => StrLess(PathStr(files[i]), PathStr(files[j]))

\* the directories between a file and the source root that an exclude-dir
\* pattern matches
ExcludedDirs(f) ==
    {d \in Between(f) : \E i \in DOMAIN cfg.exclude_dirs :
                            \/ fnmatch(Name(d), cfg.exclude_dirs[i])
                            \/ fnmatch(StrOf(RelativeTo(d, SourceDir)),
                                       cfg.exclude_dirs[i])}

\* the first pattern of pats that matches one of the names
FirstOf(names, pats) ==
    pats[CHOOSE i \in DOMAIN pats :
            /\ \E n \in names : fnmatch(n, pats[i])
            /\ \A j \in 1..(i - 1) : \A n \in names : ~fnmatch(n, pats[j])]

\* the reason the rules give for excluding f
ExpectedReason(f) ==
    IF ExcludedDirs(f) # {}
    THEN LET d == CHOOSE x \in ExcludedDirs(f) :
                     \A y \in ExcludedDirs(f) : Len(y) <= Len(x)
         IN  [kind |-> "dir",
              pattern |-> FirstOf({Name(d), StrOf(RelativeTo(d, SourceDir))},
                                  cfg.exclude_dirs)]
    ELSE [kind |-> "file",
          pattern |-> FirstOf({Name(f)}, cfg.exclude_files)]

\* C16: the reason of a skipped file is that of the matching directory
\* nearest to the file, the source root never being tested; the file
\* patterns give the reason only when no directory matches; a file that a
\* directory pattern and a file pattern both match has one skip record, with
\* the directory reason.
C16_NearestAncestorReason ==
    Discovered =>
        \A f \in DOMAIN src : \A i \in SkipRecords(f) :
            /\ skipped_files[i][2] = ExpectedReason(f)
            /\ Between(f) = {} => skipped_files[i][2].kind = "file"
            /\ SkipRecords(f) = {i}

\* C16: a file was skipped that two directories and a file pattern exclude,
\* the outer directory by the first pattern
C16_Witness ==
    /\ Discovered
    /\ \E f \in DOMAIN src :
          /\ Cardinality(ExcludedDirs(f)) = 2
          /\ FileRuleMatches(f, cfg.exclude_files)
          /\ \E i \in SkipRecords(f) :
                /\ skipped_files[i][2].kind = "dir"
                /\ skipped_files[i][2].pattern # cfg.exclude_dirs[1]

C17_Inv ==
    /\ pc \in {"start", "find"} =>
          outcome = <<>> /\ tool_calls = <<>> /\ tgt = EmptyTree
    /\ Len(outcome) <= Len(files)
    /\ \A i \in DOMAIN outcome :
          /\ outcome[i].file = files[i]
          /\ outcome[i].result \in {"Succeeded", "Failed"}
          /\ SkipRecords(outcome[i].file) = {}
          /\ ~ExcludeRuleMatches(outcome[i].file)
    /\ \A i, j \in DOMAIN files : i < j => PathLess(files[i], files[j])
    /\ \A i, j \in DOMAIN tool_calls : i # j => tool_calls[i] # tool_calls[j]
    /\ \A f \in Range(tool_calls) : \E o \in Outcomes : o.file = f
    /\ pc = "process" => Len(outcome) = idx - 1 /\ idx <= Len(files)
    /\ pc \in {"filelist", "report", "done"} => Len(outcome) = Len(files)

C17_Step ==
    /\ pc \notin {"start", "find"} =>
          files' = files /\ skipped_files' = skipped_files
    /\ pc # "process" => outcome' = outcome /\ tool_calls' = tool_calls
    /\ \/ outcome' = outcome
       \/ /\ Len(outcome') = Len(outcome) + 1
          /\ SubSeq(outcome', 1, Len(outcome)) = outcome
          /\ outcome'[Len(outcome')].file = files[idx]

\* C17: nothing is processed before discovery has returned; the discovered
\* files are then processed one at a time in the order of the list, each one
\* once, each reaching one terminal state that never changes; a failed file
\* is not tried again, the tool is invoked at most once per file, and an
\* excluded file is never processed.
C17_SequentialOnce == []C17_Inv /\ [][C17_Step]_vars

\* C17: a run ended in which the first file failed in the tool and the second
\* one succeeded
C17_Witness ==
    /\ pc = "done"
    /\ Len(outcome) = 2
    /\ outcome[1].result = "Failed" /\ outcome[1].disposition = "Transform"
    /\ outcome[2].result = "Succeeded" /\ outcome[2].disposition = "Transform"
    /\ Len(tool_calls) = 2

\* the path of the manifest
FilelistPath == TargetDir \o <<cfg.filelist_name>>

\* C18: no two processed files have the same target path, and once the
\* manifest is written every file that succeeded still has its own content
\* at its target path: the manifest did not overwrite it.
C18_TargetsWrittenOnce ==
    /\ \A o1, o2 \in Outcomes :
          o1.file # o2.file => TargetOf(o1) # TargetOf(o2)
    /\ manifest.written =>
          \A o \in Outcomes :
              o.result = "Succeeded" /\ o.disposition = "CopyOnly" =>
                  /\ TargetOf(o) # FilelistPath
                  /\ TargetOf(o) \in DOMAIN tgt
                  /\ tgt[TargetOf(o)] = Data(o.file)

\* no two processed files have the same target path
C18_DistinctTargets ==
    \A o1, o2 \in Outcomes :
        o1.file # o2.file => TargetOf(o1) # TargetOf(o2)

====
